---------------------------- MODULE Spec2Model ----------------------------
(***************************************************************************)
(* AugerStore (src/src/index.tsx): a subscription tree over one state      *)
(* snapshot.  subscribe(path, cb) registers a callback at a node of the    *)
(* tree, update(fn) replaces the snapshot through immer's                  *)
(* produceWithPatches and walks the tree once per patch path, invoking the *)
(* callbacks found on the way.  Spec is the store used directly.           *)
(* SpecFacade is the store used through the Auger proxy (createAuger,      *)
(* createAugerHandles): $read, $ and $update at the path that a chain of   *)
(* property and get(key) accesses builds.  SpecWalk is the store with     *)
(* listeners that call the store back, SpecHook the components that use    *)
(* useAuger, SpecVisit visitPromises (src/src/utils.ts) and SpecSuspense   *)
(* the Suspense boundary (src/src/suspense.tsx).                           *)
(***************************************************************************)
EXTENDS Integers, Sequences, FiniteSets, TLC

(***************************************************************************)
(* Bound of the model.                                                     *)
(***************************************************************************)
MaxSubs == 2          \* subscribe calls in one run

(***************************************************************************)
(* SubKey = string | number | symbol.  A key is kept with its type: the    *)
(* children Map of a node compares keys by SameValueZero, so the number 0  *)
(* and the string "0" are different keys.  str is the decimal rendering.   *)
(***************************************************************************)
Str(s) == [num |-> FALSE, str |-> s]
Num(s) == [num |-> TRUE, str |-> s]

\* String(path[i]) of notifyPath: a number becomes its decimal string.
String(k) == [num |-> FALSE, str |-> k.str]

Range(s) == {s[i] : i \in DOMAIN s}

\* Set<Subscription>: insertion-ordered, no duplicates.
SetAdd(s, x) == IF x \in Range(s) THEN s ELSE Append(s, x)
SetDelete(s, x) == SelectSeq(s, LAMBDA y : y # x)

\* p is a prefix of q (or equal to it), keys compared with their types.
IsPrefix(p, q) == Len(p) <= Len(q) /\ SubSeq(q, 1, Len(p)) = p
IsStrictPrefix(p, q) == Len(p) < Len(q) /\ IsPrefix(p, q)

(***************************************************************************)
(* The callbacks handed to subscribe, and the paths they are registered    *)
(* at.  A callback records that it ran and what getState() returned then.  *)
(***************************************************************************)
Callbacks == {"cb1", "cb2"}

RootPath == <<>>
UsersPath == <<Str("users")>>
SawyerNamePath == <<Str("users"), Str("a"), Str("name")>>
MapNumPath == <<Str("map"), Num("0")>>
MapStrPath == <<Str("map"), Str("0")>>
FoodPath == <<Str("map"), Num("0"), Str("food")>>

SubPaths ==
  {RootPath, UsersPath, SawyerNamePath, MapNumPath, MapStrPath, FoodPath}

VARIABLES
  state,      \* AugerStore.state, the current snapshot
  tree,       \* AugerStore.root: node path -> [subs, children]
  handles,    \* the closures returned by subscribe, in call order
  released,   \* <<path, cb>> whose handle ran with no subscribe(path, cb) since
  patches,    \* the patch paths produceWithPatches gave the last update call
  calls,      \* listener invocations made by the last operation, in order
  threw,      \* the last operation threw to its caller
  last,       \* the last call made through an Auger proxy, if any
  comps,      \* the components that use useAuger: their hook state
  walk,       \* what the last update call with active listeners did
  visit,      \* the last visitPromises call: its value and its onPromise calls
  boundary    \* the Suspense boundary: its state, its promises, what it shows

vars ==
  <<state, tree, handles, released, patches, calls, threw, last,
    comps, walk, visit, boundary>>

\* The variables of useAuger, of active listeners, of visitPromises and of
\* Suspense.
beside == <<comps, walk, visit, boundary>>


(***************************************************************************)
(* The state handed to createStore: the tests' users record, and a Map     *)
(* that holds an entry under the number 0.  It holds none under the string *)
(* "0": MapStrPath leads to a location that does not exist.                *)
(***************************************************************************)
Taco == [food |-> "taco"]
Tofu == [food |-> "tofu"]
Sawyer2 == [a |-> [name |-> "Sawyer2", age |-> 26]]

InitState ==
  [users |-> [a |-> [name |-> "Sawyer", age |-> 26]],
   map |-> (Num("0") :> Taco)]

\* The functions handed to update.
Mutators ==
  {"rename", "setUsers", "setKey", "setFood", "setBoth", "replace", "throw"}

(***************************************************************************)
(* immer's produceWithPatches(state, fn): the next snapshot and one patch  *)
(* path per changed location, or fn's exception.  A patch path carries     *)
(* each key as immer found it: a string for an object field, the key       *)
(* itself for a Map entry.  Assigning a primitive its own value yields no  *)
(* patch; assigning a new object always yields one.                        *)
(***************************************************************************)
Result(next, paths) == [threw |-> FALSE, next |-> next, patches |-> paths]

produceWithPatches(st, m) ==
  CASE m = "rename" ->      \* state.users.a.name = 'Sawyer2'
         Result([st EXCEPT !.users.a.name = "Sawyer2"],
                IF st.users.a.name = "Sawyer2" THEN <<>> ELSE <<SawyerNamePath>>)
    [] m = "setUsers" ->    \* state.users = {a: {name: 'Sawyer2', age: 26}}
         Result([st EXCEPT !.users = Sawyer2], <<UsersPath>>)
    [] m = "setKey" ->      \* state.map.set(0, {food: 'tofu'})
         Result([st EXCEPT !.map[Num("0")] = Tofu], <<MapNumPath>>)
    [] m = "setFood" ->     \* state.map.get(0).food = 'tofu'
         Result([st EXCEPT !.map[Num("0")].food = "tofu"],
                IF st.map[Num("0")].food = "tofu" THEN <<>> ELSE <<FoodPath>>)
    [] m = "setBoth" ->     \* state.users = {...}; state.map.set(0, {...})
         Result([st EXCEPT !.users = Sawyer2, !.map[Num("0")] = Tofu],
                <<UsersPath, MapNumPath>>)
    [] m = "replace" ->     \* return a whole new state
         Result(InitState, <<RootPath>>)
    [] m = "throw" ->       \* state.users.a.name = 'Sawyer2'; throw
         [threw |-> TRUE, next |-> [st EXCEPT !.users.a.name = "Sawyer2"],
          patches |-> <<>>]

(***************************************************************************)
(* The subscription tree: a function from node paths to nodes.  A node     *)
(* keeps its listeners and the keys of its children, both in insertion     *)
(* order; the child of node n under key k is the node at Append(n, k).     *)
(***************************************************************************)
createSubNode == [subs |-> <<>>, children |-> <<>>]

InitTree == (RootPath :> createSubNode)

\* The for loop of subscribe: follow path from the root, creating the
\* missing nodes; i is the index of the next key.
RECURSIVE subscribeWalk(_, _, _)
subscribeWalk(tr, path, i) ==
  IF i > Len(path) THEN tr
  ELSE LET node == SubSeq(path, 1, i - 1)
           child == SubSeq(path, 1, i)
       IN IF child \in DOMAIN tr
          THEN subscribeWalk(tr, path, i + 1)
          ELSE subscribeWalk(
                 [tr EXCEPT ![node].children = Append(@, path[i])]
                   @@ (child :> createSubNode),
                 path, i + 1)

\* subscribe(path, sub): the tree after the call.
subscribe(tr, path, sub) ==
  LET walked == subscribeWalk(tr, path, 1)
  IN [walked EXCEPT ![path].subs = SetAdd(@, sub)]

\* A handle that also removes the node it empties, when the node is a leaf.
unsubscribePruning(tr, path, sub) ==
  LET left == SetDelete(tr[path].subs, sub)
      parent == SubSeq(path, 1, Len(path) - 1)
  IN  IF path \notin DOMAIN tr THEN tr
      ELSE IF path # <<>> /\ left = <<>> /\ tr[path].children = <<>>
      THEN [q \in DOMAIN tr \ {path} |->
              IF q = parent
              THEN [tr[q] EXCEPT !.children = SetDelete(@, path[Len(path)])]
              ELSE tr[q]]
      ELSE [tr EXCEPT ![path].subs = left]

\* A closure that deletes from the root's set instead of its own node's.
unsubscribeAtRoot(tr, path, sub) ==
  [tr EXCEPT ![RootPath].subs = SetDelete(@, sub)]

\* The closure subscribe returns: node.subs.delete(sub).
unsubscribe(tr, path, sub) ==
  [tr EXCEPT ![path].subs = SetDelete(@, sub)]

\* node.subs.forEach((s) => s()): one invocation per listener, in order.
\* seen is what getState() returns while the listeners run.
forEachSub(tr, node, seen) ==
  [i \in 1..Len(tr[node].subs) |->
     [node |-> node, cb |-> tr[node].subs[i], seen |-> seen]]

RECURSIVE notifyAllChildren(_, _, _)
RECURSIVE notifyChildrenFrom(_, _, _, _)

\* A notifyAllChildren that runs the children before the node's listeners.
notifyAllChildrenLast(tr, node, seen) ==
  notifyChildrenFrom(tr, node, 1, seen) \o forEachSub(tr, node, seen)

\* notifyAllChildren(node): the node's listeners, then every child in turn.
notifyAllChildren(tr, node, seen) ==
  forEachSub(tr, node, seen) \o notifyChildrenFrom(tr, node, 1, seen)

\* The for loop of notifyAllChildren over node.children.values(), from the
\* i-th child on.
notifyChildrenFrom(tr, node, i, seen) ==
  IF i > Len(tr[node].children) THEN <<>>
  ELSE notifyAllChildren(tr, Append(node, tr[node].children[i]), seen)
         \o notifyChildrenFrom(tr, node, i + 1, seen)

\* The for loop of notifyPath from index i, standing at node.
RECURSIVE notifyPathFrom(_, _, _, _, _)
notifyPathFrom(tr, path, i, node, seen) ==
  IF i > Len(path) THEN <<>>
  ELSE LET key == String(path[i])
           child == Append(node, key)
       IN IF child \notin DOMAIN tr THEN <<>>
          ELSE IF i = Len(path)
               THEN notifyAllChildren(tr, child, seen)
               ELSE forEachSub(tr, child, seen)
                      \o notifyPathFrom(tr, path, i + 1, child, seen)

\* notifyPath(path): the root's listeners, then the walk down the path.
notifyPath(tr, path, seen) ==
  forEachSub(tr, RootPath, seen) \o notifyPathFrom(tr, path, 1, RootPath, seen)

\* A patch loop that notifies the root for the first patch only.
RECURSIVE notifyPatchesRootOnce(_, _, _, _)
notifyPatchesRootOnce(tr, paths, i, seen) ==
  IF i > Len(paths) THEN <<>>
  ELSE (IF i = 1 THEN notifyPath(tr, paths[i], seen)
        ELSE notifyPathFrom(tr, paths[i], 1, RootPath, seen))
         \o notifyPatchesRootOnce(tr, paths, i + 1, seen)

\* for (const patch of patches) this.notifyPath(patch.path), from patch i.
RECURSIVE notifyPatches(_, _, _, _)
notifyPatches(tr, paths, i, seen) ==
  IF i > Len(paths) THEN <<>>
  ELSE notifyPath(tr, paths[i], seen) \o notifyPatches(tr, paths, i + 1, seen)

\* getState()
getState(st) == st

\* An update that assigns the draft's content before fn has returned.
updateAssignFirst(st, tr, m) ==
  LET r == produceWithPatches(st, m)
  IN IF r.threw
     THEN [state |-> r.next, patches |-> <<>>, calls |-> <<>>, threw |-> TRUE]
     ELSE [state |-> r.next, patches |-> r.patches,
           calls |-> notifyPatches(tr, r.patches, 1, getState(r.next)),
           threw |-> FALSE]

\* An update that walks the patches before it assigns this.state.
updateNotifyFirst(st, tr, m) ==
  LET r == produceWithPatches(st, m)
  IN IF r.threw
     THEN [state |-> st, patches |-> <<>>, calls |-> <<>>, threw |-> TRUE]
     ELSE [state |-> r.next, patches |-> r.patches,
           calls |-> notifyPatches(tr, r.patches, 1, getState(st)),
           threw |-> FALSE]

(***************************************************************************)
(* update(fn): what the call leaves behind.  produceWithPatches runs       *)
(* first; when fn throws nothing else happens.  Otherwise the snapshot is  *)
(* assigned and then every patch path is walked.                           *)
(***************************************************************************)
update(st, tr, m) ==
  LET r == produceWithPatches(st, m)
  IN IF r.threw
     THEN [state |-> st, patches |-> <<>>, calls |-> <<>>, threw |-> TRUE]
     ELSE [state |-> r.next, patches |-> r.patches,
           calls |-> notifyPatches(tr, r.patches, 1, getState(r.next)),
           threw |-> FALSE]

(***************************************************************************)
(* The store after construction, and its operations.                       *)
(***************************************************************************)
NoCall == [op |-> "none"]
NoComponents == <<>>
NoWalk == [started |-> FALSE]
NoVisit == [called |-> FALSE]
NoBoundary == [mounted |-> FALSE]

Init ==
  /\ state = InitState
  /\ tree = InitTree
  /\ handles = <<>>
  /\ released = {}
  /\ patches = <<>>
  /\ calls = <<>>
  /\ threw = FALSE
  /\ last = NoCall
  /\ comps = NoComponents
  /\ walk = NoWalk
  /\ visit = NoVisit
  /\ boundary = NoBoundary

\* A subscribe that runs the new listener once at registration.
SubscribeAndNotify ==
  \E path \in SubPaths, sub \in Callbacks :
    /\ Len(handles) < MaxSubs
    /\ tree' = subscribe(tree, path, sub)
    /\ handles' = Append(handles, [path |-> path, cb |-> sub, called |-> FALSE])
    /\ released' = released \ {<<path, sub>>}
    /\ patches' = <<>>
    /\ calls' = <<[node |-> path, cb |-> sub, seen |-> getState(state)]>>
    /\ threw' = FALSE
    /\ UNCHANGED <<state, last, beside>>

Subscribe ==
  \E path \in SubPaths, sub \in Callbacks :
    /\ Len(handles) < MaxSubs
    /\ tree' = subscribe(tree, path, sub)
    /\ handles' = Append(handles, [path |-> path, cb |-> sub, called |-> FALSE])
    /\ released' = released \ {<<path, sub>>}
    /\ patches' = <<>>
    /\ calls' = <<>>
    /\ threw' = FALSE
    /\ UNCHANGED <<state, last, beside>>

Unsubscribe ==
  \E h \in DOMAIN handles :
    /\ tree' = unsubscribe(tree, handles[h].path, handles[h].cb)
    /\ handles' = [handles EXCEPT ![h].called = TRUE]
    /\ released' = released \cup {<<handles[h].path, handles[h].cb>>}
    /\ patches' = <<>>
    /\ calls' = <<>>
    /\ threw' = FALSE
    /\ UNCHANGED <<state, last, beside>>

Update ==
  \E m \in Mutators :
    /\ LET r == update(state, tree, m)
       IN /\ state' = r.state
          /\ patches' = r.patches
          /\ calls' = r.calls
          /\ threw' = r.threw
    /\ UNCHANGED <<tree, handles, released, last, beside>>

\* store.getState(): returns this.state and touches nothing.
GetState ==
  /\ patches' = <<>>
  /\ calls' = <<>>
  /\ threw' = FALSE
  /\ UNCHANGED <<state, tree, handles, released, last, beside>>

Next == Subscribe \/ Unsubscribe \/ Update \/ GetState

Spec == Init /\ [][Next]_vars

(***************************************************************************)
(* Vocabulary of the properties.  calls holds the listener invocations of  *)
(* the update call that has just returned, patches its change-paths; both  *)
(* are empty after any other operation.                                    *)
(***************************************************************************)
Listeners(node) == Range(tree[node].subs)
Registered(node, cb) == node \in DOMAIN tree /\ cb \in Listeners(node)
Invoked(node, cb) ==
  \E i \in DOMAIN calls : calls[i].node = node /\ calls[i].cb = cb
Times(node, cb) ==
  Cardinality({i \in DOMAIN calls : calls[i].node = node /\ calls[i].cb = cb})
ChangePaths == Range(patches)
HasIntegerSegment(path) == \E i \in DOMAIN path : path[i].num

(***************************************************************************)
(* C1.  Ancestor and exact-match notification: after an update, for every  *)
(* non-empty change-path P, every listener registered at the root, at a    *)
(* strict prefix of P or at P itself has been invoked.                     *)
(***************************************************************************)
C1_AncestorsAndExactNotified ==
  \A P \in ChangePaths : P # <<>> =>
    \A q \in DOMAIN tree : IsPrefix(q, P) =>
      \A cb \in Listeners(q) : Invoked(q, cb)

(***************************************************************************)
(* C2.  Descendant cascade: after an update, for every non-empty           *)
(* change-path P that has a node in the tree, every listener registered    *)
(* at a node strictly below P has been invoked.                            *)
(***************************************************************************)
C2_DescendantCascade ==
  \A P \in ChangePaths : (P # <<>> /\ P \in DOMAIN tree) =>
    \A q \in DOMAIN tree : IsStrictPrefix(P, q) =>
      \A cb \in Listeners(q) : Invoked(q, cb)

(***************************************************************************)
(* C3.  Sibling isolation: a listener registered at Q is not invoked by    *)
(* an update none of whose change-paths has Q as a prefix, equals Q or     *)
(* extends Q.                                                              *)
(***************************************************************************)
C3_SiblingIsolation ==
  \A q \in DOMAIN tree :
    (\A P \in ChangePaths : ~IsPrefix(q, P) /\ ~IsPrefix(P, q)) =>
      \A cb \in Listeners(q) : ~Invoked(q, cb)

(***************************************************************************)
(* C4.  Root notified exactly once: after an update with a non-empty list  *)
(* of change-paths, every root listener has been invoked exactly once.     *)
(***************************************************************************)
C4_RootExactlyOncePerUpdate ==
  patches # <<>> => \A cb \in Listeners(RootPath) : Times(RootPath, cb) = 1

(***************************************************************************)
(* C4, amended.  After an update with a non-empty list of change-paths,    *)
(* every root listener has been invoked exactly once per change-path.      *)
(***************************************************************************)
C4_RootOncePerChangePath ==
  patches # <<>> =>
    \A cb \in Listeners(RootPath) : Times(RootPath, cb) = Len(patches)

C4_Witness ==
  /\ Len(patches) > 1
  /\ Listeners(RootPath) # {}
  /\ \A cb \in Listeners(RootPath) : Times(RootPath, cb) > 1

(***************************************************************************)
(* C5.  Unsubscribe is effective: once the handle returned by              *)
(* subscribe(path, cb) has been called, no later update invokes cb.        *)
(***************************************************************************)
C5_NeverInvokedAgain ==
  \A h \in DOMAIN handles : handles[h].called =>
    \A i \in DOMAIN calls : calls[i].cb # handles[h].cb

(***************************************************************************)
(* C5, amended.  Once the handle returned by subscribe(path, cb) has been  *)
(* called, and until a later subscribe(path, cb) registers cb at that path *)
(* again, cb is not a listener of the node at path and no update invokes   *)
(* it there, however often the handle is called again; registrations of    *)
(* cb at other paths stay in effect.                                       *)
(***************************************************************************)
C5_NotInvokedAtReleasedPath ==
  \A r \in released : ~Registered(r[1], r[2]) /\ ~Invoked(r[1], r[2])

C5_Witness ==
  /\ <<UsersPath, "cb1">> \in released
  /\ UsersPath \in ChangePaths
  /\ Invoked(RootPath, "cb1")

(***************************************************************************)
(* C6.  Double-unsubscribe is a no-op: in every reachable state, calling   *)
(* a handle that has been called before leaves every listener set of the   *)
(* tree unchanged.                                                         *)
(***************************************************************************)
C6_SecondCallIsNoOp ==
  \A h \in DOMAIN handles : handles[h].called =>
    unsubscribe(tree, handles[h].path, handles[h].cb) = tree

(***************************************************************************)
(* C7.  Unsubscribe isolation: a handle removes only the registration of   *)
(* its own subscribe call, so the registration of every subscribe call     *)
(* whose handle has not been called is still in the tree.                  *)
(***************************************************************************)
C7_OtherRegistrationsStay ==
  \A h \in DOMAIN handles : ~handles[h].called =>
    Registered(handles[h].path, handles[h].cb)

(***************************************************************************)
(* C8.  Mutator failure is all-or-nothing: an update whose function        *)
(* throws propagates the failure, and leaves the snapshot and the          *)
(* subscription tree as they were and no listener invoked.                 *)
(***************************************************************************)
C8_MutatorFailureAllOrNothing ==
  [][threw' =>
       /\ update(state, tree, "throw").threw
       /\ state' = state
       /\ tree' = tree
       /\ calls' = <<>>]_vars

C8_Witness ==
  /\ threw
  /\ state.users.a.name = "Sawyer"
  /\ Listeners(RootPath) # {}

(***************************************************************************)
(* C9.  Snapshot replaced before any notification: every listener that     *)
(* ran in an update found getState() returning that update's new snapshot. *)
(***************************************************************************)
C9_ListenersSeeNewSnapshot ==
  \A i \in DOMAIN calls : calls[i].seen = state

C9_Witness ==
  /\ calls # <<>>
  /\ SawyerNamePath \in ChangePaths
  /\ state # InitState

(***************************************************************************)
(* C10.  Key types match across subscribe and notify: a listener           *)
(* subscribed at a path with an integer segment is invoked by an update    *)
(* with a non-empty change-path equal to, below or above that path.        *)
(***************************************************************************)
C10_IntegerSegmentsNotified ==
  \A q \in DOMAIN tree : HasIntegerSegment(q) =>
    \A P \in ChangePaths : (P # <<>> /\ (IsPrefix(q, P) \/ IsPrefix(P, q))) =>
      \A cb \in Listeners(q) : Invoked(q, cb)

(***************************************************************************)
(* C11.  Wholesale replacement notifies everything downstream, also at the *)
(* root: for every change-path P of an update, the empty path of a whole   *)
(* state replacement included, every listener registered at P or at a path *)
(* nested inside P is invoked.                                             *)
(***************************************************************************)
C11_ReplacementCascadesFromRoot ==
  \A P \in ChangePaths :
    \A q \in DOMAIN tree : IsPrefix(P, q) =>
      \A cb \in Listeners(q) : Invoked(q, cb)

(***************************************************************************)
(* C12.  No match, no call: when every change-path of an update leads to a *)
(* segment with no child node, the listeners invoked are exactly those of  *)
(* the root and of the existing nodes on a change-path above its missing   *)
(* child; a first segment with no child leaves only the root listeners.    *)
(***************************************************************************)
C12_NoMatchNoCall ==
  (patches # <<>> /\ \A P \in ChangePaths : P \notin DOMAIN tree) =>
    \A q \in DOMAIN tree : \A cb \in Listeners(q) :
      Invoked(q, cb) <=> \E P \in ChangePaths : IsPrefix(q, P)

(***************************************************************************)
(* C13.  Container key replace equals path change: a change-path           *)
(* <<"map", k>> that sets the value of key k invokes the listeners at      *)
(* <<"map">>, at <<"map", k>> and at every path nested under it, as the    *)
(* replacement of a record field does; a change-path <<"map", k, f>> of a  *)
(* field inside that value invokes the listeners at <<"map", k>> and at    *)
(* the field.                                                              *)
(***************************************************************************)
C13_ContainerKeyAsPath ==
  \A P \in ChangePaths : (P # <<>> /\ P[1] = Str("map")) =>
    \A q \in DOMAIN tree : \A cb \in Listeners(q) :
      /\ (Len(P) = 2 /\ (q = SubSeq(P, 1, 1) \/ IsPrefix(P, q))) => Invoked(q, cb)
      /\ (Len(P) = 3 /\ (q = SubSeq(P, 1, 2) \/ q = P)) => Invoked(q, cb)

\* The handles of cb at q that were never called.
LiveHandles(q, cb) ==
  {h \in DOMAIN handles :
      handles[h].path = q /\ handles[h].cb = cb /\ ~handles[h].called}

\* The walk of notifyPath(P) comes to the node q.
Reaches(P, q) ==
  LET looked == [i \in DOMAIN P |-> String(P[i])]
  IN  IsPrefix(q, looked) \/ (P # <<>> /\ IsPrefix(looked, q))

(***************************************************************************)
(* C14.  Each subscribe call is a distinct registration: a callback is     *)
(* invoked, for every change-path whose walk reaches its node, once per    *)
(* handle of that callback at that path that has not been called: twice    *)
(* when it was subscribed twice, once after one of the two handles was     *)
(* called.                                                                 *)
(***************************************************************************)
C14_OneRegistrationPerSubscribe ==
  \A q \in DOMAIN tree : \A cb \in Callbacks :
    Times(q, cb) = Cardinality(LiveHandles(q, cb))
                     * Cardinality({i \in DOMAIN patches : Reaches(patches[i], q)})

(***************************************************************************)
(* C15.  subscribe, the unsubscribe handles and getState never touch the   *)
(* state and never notify: a step of one of them leaves the snapshot that  *)
(* getState() returns as it was and invokes no listener, and a getState    *)
(* step leaves the subscription tree unchanged too.                        *)
(***************************************************************************)
C15_ReadOnlyOperations ==
  [][/\ (Subscribe \/ Unsubscribe \/ GetState) =>
          (getState(state') = getState(state) /\ calls' = <<>>)
     /\ GetState => tree' = tree]_vars

C15_Witness ==
  /\ state # InitState
  /\ released # {}
  /\ tree[RootPath].children # <<>>
  /\ calls = <<>>
  /\ patches = <<>>

(***************************************************************************)
(* C16.  Subscribing into a location that does not exist yet is allowed:   *)
(* whatever the snapshot holds, every subscribed path has its node at      *)
(* once, and its callback is invoked by every later update with a          *)
(* change-path at that path, above it (an ancestor set wholesale) or       *)
(* below it.                                                               *)
(***************************************************************************)
C16_SubscribeBeforeValueExists ==
  /\ \A h \in DOMAIN handles : handles[h].path \in DOMAIN tree
  /\ \A q \in DOMAIN tree : \A cb \in Listeners(q) :
       \A P \in ChangePaths :
         (IsPrefix(q, P) \/ IsPrefix(P, q)) => Invoked(q, cb)

(***************************************************************************)
(* The Auger proxy.  Its code branches on what a value is (instanceof Map, *)
(* == null, truthiness), so here a snapshot carries the kind of each       *)
(* value.  null and undefined are one kind: the code tests == null.        *)
(***************************************************************************)
Undefined == [kind |-> "undefined"]
NumberOf(n) == [kind |-> "number", v |-> n]
StringOf(s) == [kind |-> "string", v |-> s]
ObjectOf(fields) == [kind |-> "object", fields |-> fields]
MapOf(entries) == [kind |-> "map", entries |-> entries]

\* The state of createTestStore with its kinds, by the type TestState.
TypedUser(u) == ObjectOf([name |-> StringOf(u.name), age |-> NumberOf(u.age)])
TypedEntry(e) == ObjectOf([food |-> StringOf(e.food)])
Typed(st) ==
  ObjectOf([users |-> ObjectOf([id \in DOMAIN st.users |-> TypedUser(st.users[id])]),
            map |-> MapOf([k \in DOMAIN st.map |-> TypedEntry(st.map[k])])])

\* value == null
IsNullish(value) == value.kind = "undefined"

\* !value: the values the guard `parent &&` does not let through.
IsFalsy(value) ==
  \/ IsNullish(value)
  \/ (value.kind = "number" /\ value.v = 0)
  \/ (value.kind = "string" /\ value.v = "")

\* a === b, for a value b that was not taken from a: a new object or Map
\* is never identical to the old one.
SameValue(a, b) ==
  /\ a.kind = b.kind
  /\ a.kind \in {"undefined", "number", "string"}
  /\ (a.kind = "undefined" \/ a.v = b.v)

Returned(value) == [threw |-> FALSE, value |-> value]
TypeError == [threw |-> TRUE, value |-> Undefined]

\* value[key]: a property is looked up by its name, the key as a string.
\* It throws on null and undefined; a primitive or a Map has none of the
\* data keys as a property.
getProperty(value, key) ==
  IF IsNullish(value) THEN TypeError
  ELSE IF value.kind = "object" /\ String(key).str \in DOMAIN value.fields
       THEN Returned(value.fields[String(key).str])
       ELSE Returned(Undefined)

\* value.get(key) of a Map: the key is compared as it is, 0 is not "0".
mapGet(value, key) ==
  IF key \in DOMAIN value.entries THEN value.entries[key] ELSE Undefined

\* One access on a proxy: the property .name, or .get(key).
Field(name) == [get |-> FALSE, key |-> Str(name)]
Get(key) == [get |-> TRUE, key |-> key]

\* createAuger with get keys made strings as property keys are.
RECURSIVE createAugerStrings(_, _, _)
createAugerStrings(path, chain, i) ==
  IF i > Len(chain) THEN path
  ELSE createAugerStrings(Append(path, String(chain[i].key)), chain, i + 1)

\* The path of the proxy that the accesses chain[i], chain[i+1], ... reach
\* from the proxy of path.  The get trap of the Proxy is handed the property
\* key as a string and makes the proxy of [...path, key]; handles.get(key)
\* makes it with the key as given.
RECURSIVE createAuger(_, _, _)
createAuger(path, chain, i) ==
  IF i > Len(chain) THEN path
  ELSE createAuger(Append(path, IF chain[i].get THEN chain[i].key
                                 ELSE String(chain[i].key)),
                   chain, i + 1)

\* store.auger(onRead) and useAuger(store) start at the empty path.
auger(chain) == createAuger(RootPath, chain, 1)

\* The loop of $read without its test for null and undefined.
RECURSIVE readFromUnguarded(_, _, _)
readFromUnguarded(value, path, i) ==
  IF i > Len(path) THEN Returned(value)
  ELSE IF value.kind = "map"
       THEN readFromUnguarded(mapGet(value, path[i]), path, i + 1)
       ELSE LET r == getProperty(value, path[i])
            IN  IF r.threw THEN r ELSE readFromUnguarded(r.value, path, i + 1)

\* The loop of $read from segment i on.
RECURSIVE readFrom(_, _, _)
readFrom(value, path, i) ==
  IF i > Len(path) THEN Returned(value)
  ELSE IF value.kind = "map"
       THEN readFrom(mapGet(value, path[i]), path, i + 1)
       ELSE IF IsNullish(value) THEN Returned(value)
            ELSE LET r == getProperty(value, path[i])
                 IN  IF r.threw THEN r ELSE readFrom(r.value, path, i + 1)

\* $read: hands its path to onRead, then reads; onRead is what it handed.
dollarRead(st, path) ==
  LET r == readFrom(getState(st), path, 1)
  IN  [threw |-> r.threw, value |-> r.value, onRead |-> <<path>>]

\* $: [$read(), $update].
dollar(st, path) == dollarRead(st, path)

\* The functions handed to $update: one sets a field of its argument in
\* place and returns nothing, the other returns a replacement value.
Assign(field, value) == [kind |-> "assign", field |-> field, value |-> value]
Return(value) == [kind |-> "return", value |-> value]

\* fn(subNode).  Setting a field of undefined, or of a primitive in strict
\* code, throws; a field set on a Map object is no entry of the Map.
applyFn(fn, subNode) ==
  IF fn.kind = "return"
  THEN [threw |-> FALSE, newNode |-> fn.value, subNode |-> subNode]
  ELSE IF subNode.kind = "object"
       THEN [threw |-> FALSE, newNode |-> Undefined,
             subNode |-> ObjectOf((fn.field :> fn.value) @@ subNode.fields)]
       ELSE IF subNode.kind = "map"
            THEN [threw |-> FALSE, newNode |-> Undefined, subNode |-> subNode]
            ELSE [threw |-> TRUE, newNode |-> Undefined, subNode |-> subNode]

\* The loop of $update over the draft: subNode = subNode[prop] whatever
\* subNode is.  parent starts as null.
RECURSIVE walkDraft(_, _, _, _)
walkDraft(subNode, parent, path, i) ==
  IF i > Len(path) THEN [threw |-> FALSE, subNode |-> subNode, parent |-> parent]
  ELSE LET r == getProperty(subNode, path[i])
       IN  IF r.threw THEN [threw |-> TRUE, subNode |-> Undefined, parent |-> subNode]
           ELSE walkDraft(r.value, subNode, path, i + 1)

\* The snapshot that has new at path, where the draft walk passed through
\* objects down to the parent, an object or a Map.
RECURSIVE setAt(_, _, _, _)
setAt(value, path, i, new) ==
  IF i > Len(path) THEN new
  ELSE IF value.kind = "map"
       THEN MapOf((path[i] :> setAt(mapGet(value, path[i]), path, i + 1, new))
                     @@ value.entries)
       ELSE ObjectOf((String(path[i]).str :>
                        setAt(getProperty(value, path[i]).value, path, i + 1, new))
                     @@ value.fields)

NotCalled(st) ==
  [threw |-> TRUE, next |-> st, patches |-> <<>>, called |-> FALSE, arg |-> Undefined]

\* produceWithPatches(this.state, draft => ...) for the function that
\* $update hands to store.update.
draftFunction(st, path, fn) ==
  LET w == walkDraft(st, Undefined, path, 1)
  IN  IF w.threw THEN NotCalled(st)
      ELSE
        LET a == applyFn(fn, w.subNode)
            done(next, paths) ==
              [threw |-> FALSE, next |-> next, patches |-> paths,
               called |-> TRUE, arg |-> w.subNode]
            lastProp == path[Len(path)]
        IN  IF a.threw THEN [NotCalled(st) EXCEPT !.called = TRUE, !.arg = w.subNode]
            ELSE IF a.newNode # Undefined
            THEN IF ~IsFalsy(w.parent) /\ path # <<>>
                 THEN IF w.parent.kind = "map"
                      THEN IF SameValue(mapGet(w.parent, lastProp), a.newNode)
                           THEN done(st, <<>>)
                           ELSE done(setAt(st, path, 1, a.newNode), <<path>>)
                      ELSE IF w.parent.kind = "object"
                           THEN IF SameValue(w.subNode, a.newNode)
                                THEN done(st, <<>>)
                                ELSE done(setAt(st, path, 1, a.newNode),
                                          <<Append(SubSeq(path, 1, Len(path) - 1),
                                                   String(lastProp))>>)
                           ELSE [NotCalled(st) EXCEPT !.called = TRUE, !.arg = w.subNode]
                 ELSE done(a.newNode, <<RootPath>>)
            ELSE IF a.subNode = w.subNode \/
                      SameValue(getProperty(w.subNode, Str(fn.field)).value, fn.value)
                 THEN done(st, <<>>)
                 ELSE done(setAt(st, path, 1, a.subNode),
                           <<Append(path, Str(fn.field))>>)

\* $update(fn): store.update with that function.
dollarUpdate(st, tr, path, fn) ==
  LET r == draftFunction(st, path, fn)
  IN  IF r.threw
      THEN [state |-> st, patches |-> <<>>, calls |-> <<>>, threw |-> TRUE,
            called |-> r.called, arg |-> r.arg]
      ELSE [state |-> r.next, patches |-> r.patches,
            calls |-> notifyPatches(tr, r.patches, 1, getState(r.next)),
            threw |-> FALSE, called |-> r.called, arg |-> r.arg]

\* The accesses made on the proxy: fields that exist, a field and a Map key
\* that do not, a field below a missing one and one below a number.
Chains ==
  { <<>>,
    <<Field("users")>>,
    <<Field("users"), Field("a")>>,
    <<Field("users"), Field("a"), Field("name")>>,
    <<Field("users"), Field("a"), Field("age")>>,
    <<Field("users"), Field("a"), Field("age"), Field("x")>>,
    <<Field("users"), Field("b")>>,
    <<Field("users"), Field("b"), Field("name")>>,
    <<Field("map")>>,
    <<Field("map"), Get(Num("0"))>>,
    <<Field("map"), Get(Num("0")), Field("food")>>,
    <<Field("map"), Get(Str("0"))>> }

\* The $update calls made: the chain and the function, which returns or
\* sets what the type of the value at that chain asks for.
UpdateCall(chain, fn) == [chain |-> chain, fn |-> fn]

Updates ==
  { UpdateCall(<<>>, Return(Typed(InitState))),
    UpdateCall(<<Field("users"), Field("a")>>, Assign("name", StringOf("Sawyer2"))),
    UpdateCall(<<Field("users"), Field("a"), Field("name")>>, Return(StringOf("Sawyer2"))),
    UpdateCall(<<Field("users"), Field("a"), Field("age")>>, Return(NumberOf(0))),
    UpdateCall(<<Field("users"), Field("a"), Field("age"), Field("x")>>, Return(NumberOf(1))),
    UpdateCall(<<Field("users"), Field("b")>>, Assign("name", StringOf("Sawyer2"))),
    UpdateCall(<<Field("users"), Field("b"), Field("name")>>, Return(StringOf("Sawyer2"))),
    UpdateCall(<<Field("map"), Get(Num("0"))>>, Assign("food", StringOf("tofu"))),
    UpdateCall(<<Field("map"), Get(Num("0"))>>, Return(TypedEntry(Tofu))),
    UpdateCall(<<Field("map"), Get(Num("0")), Field("food")>>, Return(StringOf("tofu"))),
    UpdateCall(<<Field("map"), Get(Str("0"))>>, Return(TypedEntry(Tofu))) }

InitFacade ==
  /\ state = Typed(InitState)
  /\ tree = InitTree
  /\ handles = <<>>
  /\ released = {}
  /\ patches = <<>>
  /\ calls = <<>>
  /\ threw = FALSE
  /\ last = NoCall
  /\ comps = NoComponents
  /\ walk = NoWalk
  /\ visit = NoVisit
  /\ boundary = NoBoundary

\* auger.<chain>.$read()
Read ==
  \E chain \in Chains :
    LET path == auger(chain)
        r == dollarRead(state, path)
    IN  /\ last' = [op |-> "$read", chain |-> chain, path |-> path,
                    onRead |-> r.onRead, value |-> r.value]
        /\ threw' = r.threw
        /\ patches' = <<>>
        /\ calls' = <<>>
        /\ UNCHANGED <<state, tree, handles, released, beside>>

\* auger.<chain>.$()
Dollar ==
  \E chain \in Chains :
    LET path == auger(chain)
        r == dollar(state, path)
    IN  /\ last' = [op |-> "$", chain |-> chain, path |-> path,
                    onRead |-> r.onRead, value |-> r.value]
        /\ threw' = r.threw
        /\ patches' = <<>>
        /\ calls' = <<>>
        /\ UNCHANGED <<state, tree, handles, released, beside>>

\* auger.<chain>.$update(fn)
Write ==
  \E u \in Updates :
    LET chain == u.chain
        fn == u.fn
        path == auger(chain)
        r == dollarUpdate(state, tree, path, fn)
    IN  /\ state' = r.state
        /\ patches' = r.patches
        /\ calls' = r.calls
        /\ threw' = r.threw
        /\ last' = [op |-> "$update", chain |-> chain, path |-> path, fn |-> fn,
                    called |-> r.called, arg |-> r.arg, onRead |-> <<>>]
        /\ UNCHANGED <<tree, handles, released, beside>>

NextFacade == Read \/ Dollar \/ Write

SpecFacade == InitFacade /\ [][NextFacade]_vars

\* What following a path through a snapshot finds: an entry of a Map by
\* its key, a field of an object by its name, and nothing in whatever else.
Lookup(value, key) ==
  IF value.kind = "map" THEN mapGet(value, key)
  ELSE IF value.kind = "object" /\ key.str \in DOMAIN value.fields
       THEN value.fields[key.str]
       ELSE Undefined

RECURSIVE ValueAt(_, _, _)
ValueAt(value, path, i) ==
  IF i > Len(path) THEN value ELSE ValueAt(Lookup(value, path[i]), path, i + 1)

ParentPath(path) == SubSeq(path, 1, Len(path) - 1)

(***************************************************************************)
(* C18.  Facade write hands fn the value that read returns: at every path  *)
(* reached through the proxy, paths through a Map by get(key) included,    *)
(* whose parent holds a value, $update(fn) calls fn, and calls it with the *)
(* value that $read returns at that path.                                  *)
(***************************************************************************)
C18_UpdateArgumentIsReadValue ==
  [][(/\ last'.op = "$update"
      /\ last'.path # <<>> =>
           ~IsNullish(dollarRead(state, ParentPath(last'.path)).value))
       => (/\ last'.called
           /\ last'.arg = dollarRead(state, last'.path).value)]_vars

\* Neither path leads to a value inside the other's.
Disjoint(p, q) == ~IsPrefix(p, q) /\ ~IsPrefix(q, p)

(***************************************************************************)
(* C19.  Facade write is scoped: $update(fn) at path P, with fn setting a  *)
(* field of its argument or returning a replacement, leaves the value at   *)
(* every path disjoint from P as it was, produces only change-paths that   *)
(* are P or have P as a prefix, and when fn returned a replacement the     *)
(* value at P is that replacement.                                         *)
(***************************************************************************)
C19_WriteIsScoped ==
  [][last'.op = "$update" =>
       /\ \A c \in Chains :
            Disjoint(auger(c), last'.path) =>
              ValueAt(state', auger(c), 1) = ValueAt(state, auger(c), 1)
       /\ \A i \in DOMAIN patches' : IsPrefix(last'.path, patches'[i])
       /\ (last'.fn.kind = "return" /\ ~threw') =>
            ValueAt(state', last'.path, 1) = last'.fn.value]_vars

\* The keys of the accesses of a chain, in order.
Keys(chain) == [i \in DOMAIN chain |-> chain[i].key]

(***************************************************************************)
(* C20.  Facade read registers exactly its own path: a call of $read or $  *)
(* on the proxy reached by a chain of field and get(key) accesses hands    *)
(* onRead the path of the keys of that chain, once, and leaves the         *)
(* snapshot and the subscription tree as they were.                        *)
(***************************************************************************)
C20_ReadReportsItsPath ==
  [][last'.op \in {"$read", "$"} =>
       /\ last'.onRead = <<Keys(last'.chain)>>
       /\ state' = state
       /\ tree' = tree]_vars

C20_Witness ==
  /\ last.op = "$"
  /\ last.onRead = <<FoodPath>>
  /\ last.value = StringOf("tofu")

(***************************************************************************)
(* C23.  Notification order: the invocations of one update are those of    *)
(* its change-paths one after the other, in the order of the change-paths; *)
(* within the invocations of one change-path every listener sits at a node *)
(* its walk comes to and no listener of a node comes after a listener of a  *)
(* node below it, so that the root's listeners come first.                 *)
(***************************************************************************)
C23_NotificationOrder ==
  \E cut \in [0..Len(patches) -> 0..Len(calls)] :
    /\ cut[0] = 0
    /\ cut[Len(patches)] = Len(calls)
    /\ \A k \in 1..Len(patches) :
         /\ cut[k - 1] <= cut[k]
         /\ \A i \in (cut[k - 1] + 1)..cut[k] :
              /\ Reaches(patches[k], calls[i].node)
              /\ \A j \in (i + 1)..cut[k] :
                   ~IsStrictPrefix(calls[j].node, calls[i].node)

C23_Witness ==
  /\ patches = <<UsersPath, MapNumPath>>
  /\ Len(calls) = 3
  /\ calls[1].node = RootPath
  /\ calls[2].node = UsersPath
  /\ calls[3].node = RootPath

\* Every prefix of every path ever handed to subscribe.
SubscribedPrefixes ==
  UNION {{SubSeq(handles[h].path, 1, n) : n \in 0..Len(handles[h].path)} :
           h \in DOMAIN handles}

(***************************************************************************)
(* C24.  Node lifecycle: in every reachable state the node paths of the    *)
(* subscription tree are exactly the root and the prefixes of the paths    *)
(* ever handed to subscribe, each node's children being the nodes one      *)
(* segment below it: no operation but subscribe creates a node and none    *)
(* removes one.                                                            *)
(***************************************************************************)
C24_NodeLifecycle ==
  /\ DOMAIN tree = {RootPath} \cup SubscribedPrefixes
  /\ \A q \in DOMAIN tree :
       Range(tree[q].children) = {k \in {p[Len(p)] : p \in DOMAIN tree \ {RootPath}} :
                                    Append(q, k) \in DOMAIN tree}

C24_Witness ==
  /\ FoodPath \in DOMAIN tree
  /\ Listeners(FoodPath) = {}
  /\ Listeners(MapNumPath) = {}
  /\ FoodPath \in ChangePaths


(***************************************************************************)
(* Listeners that act.  A listener is a function of the application: while *)
(* update walks the tree it may call a handle, subscribe or update.  The   *)
(* walk below is the code of update, notifyPath and notifyAllChildren with *)
(* every listener run where the code calls it, on the tree, the snapshot   *)
(* and the handles as they are at that moment.                             *)
(*                                                                         *)
(* Set.prototype.forEach visits the entries of the Set by position: an     *)
(* entry deleted before it is reached is skipped, an entry added during    *)
(* the iteration is appended and reached in its turn.  While a walk runs a *)
(* deleted entry therefore leaves a Hole; the holes go when the walk ends. *)
(***************************************************************************)
Hole == "<empty>"

\* What each listener of this specification does when it is called.
Returns == [op |-> "return"]
does(cb) ==
  CASE cb = "plain" -> Returns
    [] cb = "quiet" -> Returns
    [] cb = "releaseFirst" -> [op |-> "release", first |-> TRUE]
    [] cb = "releaseLast" -> [op |-> "release", first |-> FALSE]
    [] cb = "subscribeQuiet" -> [op |-> "subscribe", path |-> UsersPath, sub |-> "quiet"]
    [] cb = "updateFood" -> [op |-> "update", m |-> "setFood"]

\* node.subs.delete(sub) while the Set may be under iteration.
subsDelete(tr, path, sub) ==
  [tr EXCEPT ![path].subs = [i \in DOMAIN @ |-> IF @[i] = sub THEN Hole ELSE @[i]]]

\* The Sets of the tree once no iteration is running.
settled(tr) ==
  [q \in DOMAIN tr |-> [tr[q] EXCEPT !.subs = SelectSeq(@, LAMBDA s : s # Hole)]]

\* The store and its handles at the start of a call of update.
Env(st, tr, hs, rel) ==
  [state |-> st, tree |-> tr, handles |-> hs, released |-> rel,
   log |-> <<>>, threw |-> FALSE, start |-> tr]

\* The entries of a Set as they were when update was called.
entriesAtStart(e, node) ==
  IF node \in DOMAIN e.start THEN e.start[node].subs ELSE <<>>

\* The entries of node.subs as forEach finds them, holes included.
entries(e, node) == e.tree[node].subs

\* The handle a releasing listener calls.
handleOf(e, d) == IF d.first THEN 1 ELSE Len(e.handles)

RECURSIVE callListener(_, _, _, _)
RECURSIVE subsForEach(_, _, _, _)
RECURSIVE walkAllChildren(_, _, _)
RECURSIVE walkChildrenFrom(_, _, _, _)
RECURSIVE walkPathFrom(_, _, _, _, _)
RECURSIVE walkPatches(_, _, _, _)
RECURSIVE storeUpdate(_, _, _)

\* s(): the listener cb of node is called at nesting depth of update calls.
callListener(e, node, cb, depth) ==
  IF e.threw THEN e
  ELSE
    LET d == does(cb)
        logged == [e EXCEPT !.log = Append(@,
                     [node |-> node, cb |-> cb, seen |-> getState(e.state),
                      depth |-> depth, did |-> d,
                      handle |-> IF d.op = "release" THEN handleOf(e, d) ELSE 0])]
    IN CASE d.op = "return" -> logged
         [] d.op = "release" ->
              LET h == logged.handles[handleOf(e, d)]
              IN [logged EXCEPT
                    !.tree = subsDelete(@, h.path, h.cb),
                    !.handles[handleOf(e, d)].called = TRUE,
                    !.released = @ \cup {<<h.path, h.cb>>}]
         [] d.op = "subscribe" ->
              [logged EXCEPT
                 !.tree = subscribe(@, d.path, d.sub),
                 !.handles = Append(@, [path |-> d.path, cb |-> d.sub, called |-> FALSE]),
                 !.released = @ \ {<<d.path, d.sub>>}]
         [] d.op = "update" -> storeUpdate(logged, d.m, depth + 1)

\* node.subs.forEach((s) => s()) from the i-th entry of the Set on.
subsForEach(e, node, i, depth) ==
  IF i > Len(entries(e, node)) THEN e
  ELSE LET s == entries(e, node)[i]
       IN IF s = Hole
          THEN subsForEach(e, node, i + 1, depth)
          ELSE subsForEach(callListener(e, node, s, depth), node, i + 1, depth)

\* notifyAllChildren(node) with listeners that act.
walkAllChildren(e, node, depth) ==
  walkChildrenFrom(subsForEach(e, node, 1, depth), node, 1, depth)

\* for (const child of node.children.values()) from the i-th child on.
walkChildrenFrom(e, node, i, depth) ==
  IF i > Len(e.tree[node].children) THEN e
  ELSE walkChildrenFrom(
         walkAllChildren(e, Append(node, e.tree[node].children[i]), depth),
         node, i + 1, depth)

\* The for loop of notifyPath from index i, standing at node.
walkPathFrom(e, path, i, node, depth) ==
  IF i > Len(path) THEN e
  ELSE LET child == Append(node, String(path[i]))
       IN IF child \notin DOMAIN e.tree THEN e
          ELSE IF i = Len(path)
               THEN walkAllChildren(e, child, depth)
               ELSE walkPathFrom(subsForEach(e, child, 1, depth),
                                 path, i + 1, child, depth)

\* notifyPath(path) with listeners that act.
walkPath(e, path, depth) ==
  walkPathFrom(subsForEach(e, RootPath, 1, depth), path, 1, RootPath, depth)

\* for (const patch of patches) this.notifyPath(patch.path), from patch i on.
walkPatches(e, paths, i, depth) ==
  IF i > Len(paths) THEN e
  ELSE walkPatches(walkPath(e, paths[i], depth), paths, i + 1, depth)

\* An update that, called by the application, runs the root's listeners
\* once before it walks its patches.
storeUpdateRootFirst(e, m, depth) ==
  LET r == produceWithPatches(e.state, m)
      assigned == [e EXCEPT !.state = r.next]
  IN IF r.threw THEN [e EXCEPT !.threw = TRUE]
     ELSE walkPatches(IF depth = 1 THEN subsForEach(assigned, RootPath, 1, depth)
                      ELSE assigned,
                      r.patches, 1, depth)

\* update(fn) with listeners that act; ReactDOM.unstable_batchedUpdates
\* runs its argument at once, also when it is called from a listener.
storeUpdate(e, m, depth) ==
  LET r == produceWithPatches(e.state, m)
  IN IF r.threw THEN [e EXCEPT !.threw = TRUE]
     ELSE walkPatches([e EXCEPT !.state = r.next], r.patches, 1, depth)


(***************************************************************************)
(* The store with listeners that act: subscribe and the handles are called *)
(* by the application and by the listeners, update runs the walk above.    *)
(***************************************************************************)
MaxHandles == MaxSubs + 1

\* The subscriptions the application makes: path and listener.
WalkSubs ==
  { <<RootPath, "plain">>, <<UsersPath, "plain">>, <<SawyerNamePath, "quiet">>,
    <<RootPath, "releaseFirst">>, <<RootPath, "releaseLast">>,
    <<RootPath, "subscribeQuiet">>, <<RootPath, "updateFood">> }

WalkMutators == {"rename", "setUsers", "setBoth", "throw"}

\* The registrations of a tree: node and position in the node's Set.
Registrations(tr) ==
  UNION {{<<q, i>> : i \in 1..Len(tr[q].subs)} : q \in DOMAIN tr}

InitWalk ==
  /\ state = InitState
  /\ tree = InitTree
  /\ handles = <<>>
  /\ released = {}
  /\ patches = <<>>
  /\ calls = <<>>
  /\ threw = FALSE
  /\ last = NoCall
  /\ comps = NoComponents
  /\ walk = NoWalk
  /\ visit = NoVisit
  /\ boundary = NoBoundary

\* store.subscribe(path, sub) called by the application.
SubscribeActive ==
  \E s \in WalkSubs :
    /\ Len(handles) < MaxSubs
    /\ tree' = subscribe(tree, s[1], s[2])
    /\ handles' = Append(handles, [path |-> s[1], cb |-> s[2], called |-> FALSE])
    /\ released' = released \ {s}
    /\ patches' = <<>>
    /\ calls' = <<>>
    /\ threw' = FALSE
    /\ walk' = NoWalk
    /\ UNCHANGED <<state, last, comps, visit, boundary>>

\* A handle called by the application.
UnsubscribeActive ==
  \E h \in DOMAIN handles :
    /\ tree' = unsubscribe(tree, handles[h].path, handles[h].cb)
    /\ handles' = [handles EXCEPT ![h].called = TRUE]
    /\ released' = released \cup {<<handles[h].path, handles[h].cb>>}
    /\ patches' = <<>>
    /\ calls' = <<>>
    /\ threw' = FALSE
    /\ walk' = NoWalk
    /\ UNCHANGED <<state, last, comps, visit, boundary>>

\* store.update(fn) called by the application: the whole call, every
\* listener it runs and every call those listeners make included.
UpdateActive ==
  \E m \in WalkMutators :
    LET r == storeUpdate(Env(state, tree, handles, released), m, 1)
        p == produceWithPatches(state, m)
    IN /\ Len(r.handles) <= MaxHandles
       /\ state' = r.state
       /\ tree' = settled(r.tree)
       /\ handles' = r.handles
       /\ released' = r.released
       /\ patches' = p.patches
       /\ calls' = [i \in DOMAIN r.log |->
                      [node |-> r.log[i].node, cb |-> r.log[i].cb, seen |-> r.log[i].seen]]
       /\ threw' = r.threw
       /\ walk' = [started |-> TRUE, m |-> m, before |-> getState(state),
                   registered |-> Cardinality(Registrations(tree)),
                   from |-> tree, log |-> r.log]
       /\ UNCHANGED <<last, comps, visit, boundary>>

NextWalk == SubscribeActive \/ UnsubscribeActive \/ UpdateActive

SpecWalk == InitWalk /\ [][NextWalk]_vars


\* The invocations an update call made itself, those of nested calls left out.
OuterLog == SelectSeq(walk.log, LAMBDA c : c.depth = 1)
\* Node and listener of each invocation of a log.
Who(log) == [i \in DOMAIN log |-> <<log[i].node, log[i].cb>>]

(***************************************************************************)
(* C25.  Nested updates are deferred: when a listener calls update during  *)
(* a notification walk, no listener of the nested call's walk is invoked   *)
(* before the walk in progress has invoked its last listener, and the walk *)
(* in progress invokes exactly the listeners it would have invoked without *)
(* the nested call.                                                        *)
(***************************************************************************)
C25_NestedUpdatesDeferred ==
  walk.started =>
    /\ \A i, j \in DOMAIN walk.log :
         i < j => walk.log[i].depth <= walk.log[j].depth
    /\ (\A i \in DOMAIN walk.log : walk.log[i].did.op \in {"return", "update"})
         => Who(OuterLog) = Who(notifyPatches(walk.from, patches, 1, state))


(***************************************************************************)
(* C26.  Bounded work: when no listener calls update, the number of        *)
(* listener invocations of one update call is at most the number of its    *)
(* change-paths times the number of registrations present when the call    *)
(* started, also when listeners subscribe or call handles during the walk. *)
(***************************************************************************)
C26_BoundedInvocations ==
  (/\ walk.started
   /\ \A i \in DOMAIN walk.log : walk.log[i].did.op # "update")
    => Len(walk.log) <= Len(patches) * walk.registered


\* The registration a releasing invocation of the log gave up.
Given(c) == <<handles[c.handle].path, handles[c.handle].cb>>
\* The invocation c registers the listener r[2] at the node r[1] again.
Restores(c, r) == c.did.op = "subscribe" /\ c.did.path = r[1] /\ c.did.sub = r[2]

(***************************************************************************)
(* C27.  Unsubscribe during a walk: once a listener has called the handle  *)
(* of a registration, the callback of that registration is not invoked at  *)
(* the node of the registration for the rest of the update call, unless a  *)
(* listener subscribes it there again; it may still be invoked at another  *)
(* node where it is registered.                                            *)
(***************************************************************************)
C27_ReleasedIsSkipped ==
  walk.started =>
    \A i, j \in DOMAIN walk.log :
      (/\ i < j
       /\ walk.log[i].did.op = "release"
       /\ <<walk.log[j].node, walk.log[j].cb>> = Given(walk.log[i]))
        => \E k \in i..(j - 1) : Restores(walk.log[k], Given(walk.log[i]))

C27_Witness ==
  /\ walk.started
  /\ patches = <<UsersPath, MapNumPath>>
  /\ walk.from[RootPath].subs = <<"releaseLast", "plain">>
  /\ Who(walk.log) = << <<RootPath, "releaseLast">>, <<RootPath, "releaseLast">> >>


(***************************************************************************)
(* C28.  No-op update: an update call whose mutator changes nothing, so    *)
(* that the list of change-paths is empty, invokes no listener, not even   *)
(* one registered at the root, and getState() returns afterwards what it   *)
(* returned before the call.                                               *)
(***************************************************************************)
C28_NoOpUpdate ==
  (walk.started /\ ~threw /\ patches = <<>>)
    => /\ walk.log = <<>>
       /\ calls = <<>>
       /\ getState(state) = walk.before

C28_Witness ==
  /\ walk.started
  /\ walk.m = "rename"
  /\ ~threw
  /\ patches = <<>>
  /\ Len(walk.from[RootPath].subs) = 2
  /\ UsersPath \notin DOMAIN tree


(***************************************************************************)
(* useAuger.  A component that calls the hook keeps, from render to        *)
(* render, the ref subs and the counter of useState.  Each render makes a  *)
(* new rerender closure and hands out a proxy whose onRead pushes the path *)
(* read onto subs.current.  The effect has no dependency list: React runs  *)
(* it after every committed render of the component, the cleanup of the    *)
(* previous run first, and runs the last cleanup when the component        *)
(* unmounts.  React runs the effect of a render before it renders or       *)
(* unmounts the component again, but other code may run in between.        *)
(***************************************************************************)
Components == {"A", "B"}

\* The paths a render of component c may read through the proxy, in the
\* order of the reads.
Reads(c) ==
  IF c = "A" THEN { <<SawyerNamePath>>, <<UsersPath, MapNumPath>> }
  ELSE { <<SawyerNamePath>>, <<MapNumPath>> }

HookMutators == {"rename", "setKey", "replace"}

\* The closure rerender of a render of component c.  A closure is released
\* by the effect of the next render, so that telling the closures of two
\* successive renders apart tells all registered closures apart.
rerender(c, gen) == [comp |-> c, gen |-> gen]

\* The hook state of a component that is not mounted.
Unmounted ==
  [mounted |-> FALSE, gen |-> 0, current |-> <<>>, unsubs |-> <<>>,
   pending |-> FALSE, dirty |-> FALSE, reads |-> <<>>, owed |-> FALSE]

\* The function component runs: useRef, useState, a new rerender, and the
\* reads of the render through the proxy; the effect is scheduled.
render(h, reads) ==
  [h EXCEPT !.mounted = TRUE,
            !.gen = 1 - @,
            !.current = @ \o reads,
            !.pending = TRUE,
            !.dirty = FALSE,
            !.reads = reads,
            !.owed = FALSE]

\* An effect whose cleanup function releases nothing.
releaseNone(tr, unsubs, i) == tr

\* for (const release of unsubs) release(), from the i-th closure on.
RECURSIVE releaseAll(_, _, _)
releaseAll(tr, unsubs, i) ==
  IF i > Len(unsubs) THEN tr
  ELSE releaseAll(unsubscribe(tr, unsubs[i].path, unsubs[i].cb), unsubs, i + 1)

\* for (const path of subs.current) unsubs.push(store.subscribe(path,
\* rerender)), from the i-th path on.
RECURSIVE subscribeAll(_, _, _, _)
subscribeAll(tr, paths, sub, i) ==
  IF i > Len(paths) THEN tr
  ELSE subscribeAll(subscribe(tr, paths[i], sub), paths, sub, i + 1)

\* P and p are the same path or one is above the other.
Related(P, p) == IsPrefix(P, p) \/ IsPrefix(p, P)

\* The components whose rerender an update called.
Woken(log) == {log[i].cb.comp : i \in DOMAIN log}

InitHook ==
  /\ state = InitState
  /\ tree = InitTree
  /\ handles = <<>>
  /\ released = {}
  /\ patches = <<>>
  /\ calls = <<>>
  /\ threw = FALSE
  /\ last = NoCall
  /\ comps = [c \in Components |-> Unmounted]
  /\ walk = NoWalk
  /\ visit = NoVisit
  /\ boundary = NoBoundary

\* React renders component c for the first time.
Mount(c) ==
  /\ ~comps[c].mounted
  /\ \E reads \in Reads(c) : comps' = [comps EXCEPT ![c] = render(Unmounted, reads)]
  /\ patches' = <<>>
  /\ calls' = <<>>
  /\ UNCHANGED <<state, tree, handles, released, threw, last, walk, visit, boundary>>

\* React renders component c again after its rerender was called.
Rerender(c) ==
  /\ comps[c].mounted
  /\ comps[c].dirty
  /\ ~comps[c].pending
  /\ \E reads \in Reads(c) : comps' = [comps EXCEPT ![c] = render(@, reads)]
  /\ patches' = <<>>
  /\ calls' = <<>>
  /\ UNCHANGED <<state, tree, handles, released, threw, last, walk, visit, boundary>>

\* React runs the effect of the last render of c: the cleanup of the
\* previous run, then the body.
Effect(c) ==
  /\ comps[c].mounted
  /\ comps[c].pending
  /\ LET h == comps[c]
         sub == rerender(c, h.gen)
     IN /\ tree' = subscribeAll(releaseAll(tree, h.unsubs, 1), h.current, sub, 1)
        /\ comps' = [comps EXCEPT
                       ![c].unsubs = [i \in DOMAIN h.current |->
                                        [path |-> h.current[i], cb |-> sub]],
                       ![c].current = <<>>,
                       ![c].pending = FALSE]
  /\ patches' = <<>>
  /\ calls' = <<>>
  /\ UNCHANGED <<state, handles, released, threw, last, walk, visit, boundary>>

\* React unmounts c: the cleanup of the last run of the effect.
Unmount(c) ==
  /\ comps[c].mounted
  /\ ~comps[c].pending
  /\ tree' = releaseAll(tree, comps[c].unsubs, 1)
  /\ comps' = [comps EXCEPT ![c] = Unmounted]
  /\ patches' = <<>>
  /\ calls' = <<>>
  /\ UNCHANGED <<state, handles, released, threw, last, walk, visit, boundary>>

\* store.update(fn) called by the application; the listeners are the
\* rerender closures, each of which calls updateCounter.
UpdateHook ==
  \E m \in HookMutators :
    LET r == update(state, tree, m)
    IN /\ state' = r.state
       /\ patches' = r.patches
       /\ calls' = r.calls
       /\ threw' = r.threw
       /\ comps' = [c \in Components |->
                      [comps[c] EXCEPT
                         !.dirty = @ \/ c \in Woken(r.calls),
                         !.owed = @ \/ (/\ comps[c].mounted
                                        /\ \E i \in DOMAIN r.patches, j \in DOMAIN comps[c].reads :
                                             Related(r.patches[i], comps[c].reads[j]))]]
       /\ UNCHANGED <<tree, handles, released, last, walk, visit, boundary>>

NextHook ==
  \/ \E c \in Components : Mount(c)
  \/ \E c \in Components : Rerender(c)
  \/ \E c \in Components : Effect(c)
  \/ \E c \in Components : Unmount(c)
  \/ UpdateHook

SpecHook == InitHook /\ [][NextHook]_vars

\* React runs every scheduled effect and every scheduled render.
SpecHookFair ==
  /\ SpecHook
  /\ \A c \in Components : WF_vars(Effect(c)) /\ WF_vars(Rerender(c))


\* The nodes where a rerender closure of component c is registered.
Owns(c) ==
  {q \in DOMAIN tree : \E i \in DOMAIN tree[q].subs : tree[q].subs[i].comp = c}

(***************************************************************************)
(* C29.  Subscription set of a component: once the effect of a render has  *)
(* run, the registrations of the component are exactly at the paths that   *)
(* render read, with the rerender of that render, those of earlier renders *)
(* being released; until the effect runs they are those of the render      *)
(* before; an unmounted component has none.                                *)
(***************************************************************************)
C29_OwnsWhatItRead ==
  \A c \in Components :
    LET h == comps[c]
    IN /\ ~h.mounted => Owns(c) = {}
       /\ (h.mounted /\ ~h.pending) =>
            /\ Owns(c) = Range(h.reads)
            /\ \A q \in Owns(c) : rerender(c, h.gen) \in Range(tree[q].subs)
            /\ \A q \in Owns(c) : rerender(c, 1 - h.gen) \notin Range(tree[q].subs)
       /\ (h.mounted /\ h.pending) =>
            Owns(c) = {h.unsubs[i].path : i \in DOMAIN h.unsubs}

C29_Witness ==
  /\ comps["A"].mounted
  /\ ~comps["A"].pending
  /\ comps["A"].reads = <<SawyerNamePath>>
  /\ MapNumPath \in DOMAIN tree
  /\ tree[MapNumPath].subs = <<>>
  /\ tree[UsersPath].subs = <<>>
  /\ ~comps["B"].mounted
  /\ patches = <<MapNumPath>>


\* An update with the change-paths ps touches a path component c read.
Touches(ps, c) ==
  \E i \in DOMAIN ps, j \in DOMAIN comps[c].reads : Related(ps[i], comps[c].reads[j])

(***************************************************************************)
(* C21.  Render isolation: an update calls the rerender of a component     *)
(* whose effect has run exactly when one of its change-paths is a path the *)
(* component read, or is above or below one: components that read paths    *)
(* disjoint from the change never re-render, components that read an       *)
(* ancestor or a descendant of the change all do.                          *)
(***************************************************************************)
C21_RenderIsolation ==
  patches # <<>> =>
    \A c \in Components :
      (comps[c].mounted /\ ~comps[c].pending) =>
        (c \in Woken(calls) <=> Touches(patches, c))

(***************************************************************************)
(* C22.  No missed update: once a render of a component has read p through *)
(* useAuger, every later update with a change-path at, above or below p    *)
(* is followed by another render of the component (or by its unmounting),  *)
(* also when the update comes after the render and before the effect of    *)
(* that render has run.                                                    *)
(***************************************************************************)
C22_NoMissedUpdate ==
  \A c \in Components : comps[c].owed ~> ~comps[c].owed


(***************************************************************************)
(* visitPromises(value, onPromise).  A value is null, undefined, a number, *)
(* a Promise, an array, a Set, a Map or another object; arrays and Sets    *)
(* keep their items in order, Maps and objects their entries.              *)
(***************************************************************************)
MaxDepth == 2

Null == [kind |-> "null"]
PromiseOf(id) == [kind |-> "promise", id |-> id]
ArrayOf(items) == [kind |-> "array", items |-> items]
SetOf(items) == [kind |-> "set", items |-> items]
MapOfEntries(es) == [kind |-> "jsmap", entries |-> es]
ObjectOfEntries(es) == [kind |-> "jsobject", entries |-> es]
Entry(key, value) == [key |-> key, value |-> value]

Promises == {PromiseOf(1), PromiseOf(2)}
Leaves == {Null, Undefined, NumberOf(0)} \cup Promises

\* The values built from value and one more leaf by one more container.
Wrapped(value, leaf) ==
  { ArrayOf(<<value>>), ArrayOf(<<value, leaf>>), ArrayOf(<<leaf, value>>),
    ArrayOf(<<value, value>>),
    SetOf(<<value>>),
    MapOfEntries(<<Entry(leaf, value)>>),
    MapOfEntries(<<Entry(NumberOf(0), leaf), Entry(NumberOf(1), value)>>),
    ObjectOfEntries(<<Entry("key", value), Entry("key2", leaf)>>) }
  \cup (IF value = leaf THEN {} ELSE {SetOf(<<leaf, value>>)})

\* The values of the entries of a Map or an object, in order.
valuesOf(es) == [i \in DOMAIN es |-> es[i].value]

\* An iteration that yields the keys of a Map or object before its values.
itemsWithKeys(value) ==
  CASE value.kind \in {"array", "set"} -> value.items
    [] value.kind = "jsmap" ->
         [i \in DOMAIN value.entries |-> value.entries[i].key] \o valuesOf(value.entries)
    [] value.kind = "jsobject" -> valuesOf(value.entries)
    [] OTHER -> <<>>

\* What the for loops of visitPromises iterate: the items of an array or a
\* Set, value.values() of a Map, Object.values(value) of another object;
\* nothing for a value whose typeof is not 'object'.
items(value) ==
  CASE value.kind \in {"array", "set"} -> value.items
    [] value.kind \in {"jsmap", "jsobject"} -> valuesOf(value.entries)
    [] OTHER -> <<>>

RECURSIVE visitPromises(_)
RECURSIVE visitItems(_, _)

\* visitPromises(value, onPromise): the arguments of the calls of onPromise,
\* in order.
visitPromises(value) ==
  IF value.kind \in {"null", "undefined"} THEN <<>>
  ELSE IF value.kind = "promise" THEN <<value>>
  ELSE visitItems(items(value), 1)

\* for (const item of ...) visitPromises(item, onPromise), from item i on.
visitItems(its, i) ==
  IF i > Len(its) THEN <<>>
  ELSE visitPromises(its[i]) \o visitItems(its, i + 1)

InitVisit ==
  /\ state = InitState
  /\ tree = InitTree
  /\ handles = <<>>
  /\ released = {}
  /\ patches = <<>>
  /\ calls = <<>>
  /\ threw = FALSE
  /\ last = NoCall
  /\ comps = NoComponents
  /\ walk = NoWalk
  /\ boundary = NoBoundary
  /\ \E leaf \in Leaves :
       visit = [called |-> FALSE, value |-> leaf, depth |-> 0, onPromise |-> <<>>]

\* The caller builds a value around the one it has.
Wrap ==
  /\ visit.depth < MaxDepth
  /\ \E leaf \in Leaves : \E value \in Wrapped(visit.value, leaf) :
       visit' = [called |-> FALSE, value |-> value, depth |-> visit.depth + 1,
                 onPromise |-> <<>>]
  /\ UNCHANGED <<state, tree, handles, released, patches, calls, threw, last, comps, walk, boundary>>

\* visitPromises(value, onPromise) is called.
Visit ==
  /\ ~visit.called
  /\ visit' = [visit EXCEPT !.called = TRUE, !.onPromise = visitPromises(visit.value)]
  /\ UNCHANGED <<state, tree, handles, released, patches, calls, threw, last, comps, walk, boundary>>

NextVisit == Wrap \/ Visit

SpecVisit == InitVisit /\ [][NextVisit]_vars

\* The number of times promise p occurs in value as an array element, a Set
\* member, a Map value or a property value, at any depth.
RECURSIVE Occurrences(_, _)
RECURSIVE OccurrencesIn(_, _, _)
Occurrences(value, p) ==
  CASE value = p -> 1
    [] value.kind \in {"array", "set"} -> OccurrencesIn(value.items, p, 1)
    [] value.kind \in {"jsmap", "jsobject"} -> OccurrencesIn(valuesOf(value.entries), p, 1)
    [] OTHER -> 0
OccurrencesIn(its, p, i) ==
  IF i > Len(its) THEN 0
  ELSE Occurrences(its[i], p) + OccurrencesIn(its, p, i + 1)

(***************************************************************************)
(* C30.  Promise visitor: visitPromises calls onPromise once for every     *)
(* occurrence of a Promise reachable from the value through array          *)
(* elements, Set members, Map values and property values at any depth,     *)
(* never with anything that is not a Promise, and not at all for null,     *)
(* undefined or a primitive.                                               *)
(***************************************************************************)
C30_VisitsEveryPromiseOnce ==
  visit.called =>
    /\ \A i \in DOMAIN visit.onPromise : visit.onPromise[i] \in Promises
    /\ \A p \in Promises :
         Cardinality({i \in DOMAIN visit.onPromise : visit.onPromise[i] = p})
           = Occurrences(visit.value, p)
    /\ visit.value \in Leaves \ Promises => visit.onPromise = <<>>

C30_Witness ==
  /\ visit.called
  /\ visit.value =
       ObjectOfEntries(<<
         Entry("key", MapOfEntries(<<Entry(PromiseOf(2), PromiseOf(1))>>)),
         Entry("key2", PromiseOf(1)) >>)
  /\ visit.onPromise = <<PromiseOf(1), PromiseOf(1)>>


(***************************************************************************)
(* Suspense.  The class is an error boundary: when a child throws while it *)
(* renders, React calls getDerivedStateFromError with the thrown value,    *)
(* renders the boundary with the state it returns and then calls           *)
(* componentDidCatch with the same value; when getDerivedStateFromError    *)
(* throws, the boundary has failed and the value goes to the boundaries    *)
(* above it.  A callback handed to then runs after the promise has         *)
(* fulfilled; the call of line 24 hands over no callback for rejection.    *)
(***************************************************************************)
MaxThrows == 3

PromiseIds == {1, 2}
ErrorValue == [kind |-> "error"]
\* The values a child throws.
Thrown == Promises \cup {ErrorValue, Null}

\* error instanceof Promise
IsPromise(error) == error.kind = "promise"

\* static getDerivedStateFromError(error): the new state, or the rethrow.
getDerivedStateFromError(st, error) ==
  IF IsPromise(error)
  THEN [threw |-> FALSE, state |-> [st EXCEPT !.suspending = TRUE]]
  ELSE [threw |-> TRUE, state |-> st]

\* componentDidCatch(error): the callbacks waiting on each promise after
\* error.then(() => this.setState({suspending: false})).
componentDidCatch(thens, error) ==
  IF IsPromise(error) THEN [thens EXCEPT ![error.id] = @ + 1] ELSE thens

\* render(): what the boundary shows.
renderSuspense(st) == IF st.suspending THEN "fallback" ELSE "children"

\* The boundary after React has constructed and rendered it.
Mounted(status, thens, throws) ==
  [mounted |-> TRUE,
   state |-> [suspending |-> FALSE, error |-> Null],
   shows |-> renderSuspense([suspending |-> FALSE, error |-> Null]),
   status |-> status, thens |-> thens, throws |-> throws,
   event |-> "mount", thrown |-> Null]

InitSuspense ==
  /\ state = InitState
  /\ tree = InitTree
  /\ handles = <<>>
  /\ released = {}
  /\ patches = <<>>
  /\ calls = <<>>
  /\ threw = FALSE
  /\ last = NoCall
  /\ comps = NoComponents
  /\ walk = NoWalk
  /\ visit = NoVisit
  /\ boundary = Mounted([id \in PromiseIds |-> "pending"], [id \in PromiseIds |-> 0], 0)

\* A child throws error while the boundary renders its children.
ChildThrows ==
  \E error \in Thrown :
    /\ boundary.mounted
    /\ boundary.shows = "children"
    /\ boundary.throws < MaxThrows
    /\ LET r == getDerivedStateFromError(boundary.state, error)
       IN boundary' =
            IF r.threw
            THEN [boundary EXCEPT !.mounted = FALSE, !.shows = "nothing",
                                  !.throws = @ + 1,
                                  !.event = "rethrow", !.thrown = error]
            ELSE [boundary EXCEPT !.state = r.state,
                                  !.shows = renderSuspense(r.state),
                                  !.thens = componentDidCatch(@, error),
                                  !.throws = @ + 1,
                                  !.event = "catch", !.thrown = error]
    /\ UNCHANGED <<state, tree, handles, released, patches, calls, threw, last,
                   comps, walk, visit>>

\* A pending promise fulfils or rejects.
Settle ==
  \E id \in PromiseIds, outcome \in {"fulfilled", "rejected"} :
    /\ boundary.mounted
    /\ boundary.status[id] = "pending"
    /\ boundary' = [boundary EXCEPT !.status[id] = outcome, !.event = "settle"]
    /\ UNCHANGED <<state, tree, handles, released, patches, calls, threw, last,
                   comps, walk, visit>>

\* The callback of line 24 runs for a fulfilled promise:
\* this.setState({suspending: false}), and the boundary renders again.
RunThen(id) ==
  /\ boundary.mounted
  /\ boundary.status[id] = "fulfilled"
  /\ boundary.thens[id] > 0
  /\ LET st == [boundary.state EXCEPT !.suspending = FALSE]
     IN boundary' = [boundary EXCEPT !.state = st,
                                     !.shows = renderSuspense(st),
                                     !.thens[id] = @ - 1,
                                     !.event = "then"]
  /\ UNCHANGED <<state, tree, handles, released, patches, calls, threw, last,
                 comps, walk, visit>>

\* A promise has rejected: the promise that then returned rejects and the
\* callback of line 24 is dropped without a call.
DropThen(id) ==
  /\ boundary.mounted
  /\ boundary.status[id] = "rejected"
  /\ boundary.thens[id] > 0
  /\ boundary' = [boundary EXCEPT !.thens[id] = @ - 1, !.event = "drop"]
  /\ UNCHANGED <<state, tree, handles, released, patches, calls, threw, last,
                 comps, walk, visit>>

\* React mounts the boundary again after it failed.
Remount ==
  /\ ~boundary.mounted
  /\ boundary' = Mounted(boundary.status, boundary.thens, boundary.throws)
  /\ UNCHANGED <<state, tree, handles, released, patches, calls, threw, last,
                 comps, walk, visit>>

NextSuspense ==
  \/ ChildThrows
  \/ Settle
  \/ \E id \in PromiseIds : RunThen(id)
  \/ \E id \in PromiseIds : DropThen(id)
  \/ Remount

SpecSuspense == InitSuspense /\ [][NextSuspense]_vars

\* The jobs of settled promises are run.
SpecSuspenseFair ==
  /\ SpecSuspense
  /\ \A id \in PromiseIds : WF_vars(RunThen(id)) /\ WF_vars(DropThen(id))

(***************************************************************************)
(* C31.  Suspense boundary recovers: when a child throws a Promise the     *)
(* boundary enters the suspending state and shows the fallback; once that  *)
(* Promise has settled, fulfilled or rejected, the boundary eventually     *)
(* leaves the suspending state and shows its children again; a thrown      *)
(* value that is not a Promise is rethrown and does not put the boundary   *)
(* in the suspending state.                                                *)
(***************************************************************************)
C31_SuspenseRecovers ==
  /\ [](boundary.event = "catch" =>
          /\ IsPromise(boundary.thrown)
          /\ boundary.state.suspending
          /\ boundary.shows = "fallback")
  /\ [](boundary.event = "rethrow" =>
          /\ ~IsPromise(boundary.thrown)
          /\ ~boundary.state.suspending)
  /\ \A id \in PromiseIds :
       (/\ boundary.mounted
        /\ boundary.state.suspending
        /\ boundary.thrown = PromiseOf(id)
        /\ boundary.status[id] # "pending")
         ~> (boundary.mounted /\ ~boundary.state.suspending
             /\ boundary.shows = "children")

====
